---- MODULE Spec2Model ----
(***************************************************************************)
(* Model of tser (src/main.rs): a single-threaded terminal typing test.    *)
(*                                                                         *)
(* State: the App record (sample, typed, start_time, finished, quit), the  *)
(* position of main (pc), the event last read from the terminal (key),     *)
(* the terminal modes main acquires and releases (raw mode, alternate      *)
(* screen, mouse capture), the monotonic clock read by Instant::now(), the *)
(* value main returns (ret) and the value accuracy last returned (acc),    *)
(* whether a fallible call has returned Err (failed), how many times each  *)
(* terminal command has taken effect (calls) and the text ui last put in   *)
(* the Stats panel (stats).                                                *)
(*                                                                         *)
(* Strings are sequences of Unicode code points.  String::len() is the     *)
(* UTF-8 byte length, String::chars() iterates code points; both are       *)
(* modelled as the code computes them.                                     *)
(***************************************************************************)
EXTENDS Integers, Sequences, FiniteSets, TLC

VARIABLES app, pc, key, raw_mode, alt_screen, mouse_capture, now, ret, acc,
          failed, calls, stats

vars == <<app, pc, key, raw_mode, alt_screen, mouse_capture, now, ret, acc,
          failed, calls, stats>>

----------------------------------------------------------------------------
(* Bounds of the exploration.                                              *)

\* Largest number of positions of typed, within the length of sample, at
\* which the modelled user has typed a character that differs from sample.
MaxErrors == 1

\* Largest number of characters the modelled user types past the end of
\* sample.
MaxOvershoot == 1

\* Largest reading of the monotonic clock.
MaxClock == 1

\* Longest run of characters appended to a prefix of sample to form the
\* typed texts the accuracy function is applied to.
MaxAccLen == 3

\* Largest number of seconds elapsed since start_time at which ui is
\* applied on its own.
MaxElapsed == 61

\* Largest clock reading, in seconds, of a session followed from its
\* completion on.
MaxRenderClock == 61

\* Largest number of characters Backspace removes in a session followed
\* from its completion on.
MaxBackspaces == 2

----------------------------------------------------------------------------
(* Option<Instant>                                                         *)

None == <<>>

Some(t) == <<t>>

is_some(o) == o # <<>>

is_none(o) == o = <<>>

unwrap(o) == o[1]

----------------------------------------------------------------------------
(* Strings                                                                 *)

\* "The quick brown fox jumps over the lazy dog."
SampleText ==
    <<84, 104, 101, 32, 113, 117, 105, 99, 107, 32, 98, 114, 111, 119, 110,
      32, 102, 111, 120, 32, 106, 117, 109, 112, 115, 32, 111, 118, 101,
      114, 32, 116, 104, 101, 32, 108, 97, 122, 121, 32, 100, 111, 103, 46>>

\* Number of bytes of the UTF-8 encoding of code point c.
len_utf8(c) ==
    IF c < 128 THEN 1
    ELSE IF c < 2048 THEN 2
    ELSE IF c < 65536 THEN 3
    ELSE 4

RECURSIVE utf8_bytes(_, _)
\* Number of bytes of the UTF-8 encoding of the first n chars of s.
utf8_bytes(s, n) ==
    IF n = 0 THEN 0 ELSE len_utf8(s[n]) + utf8_bytes(s, n - 1)

\* String::len(): the length in bytes.
str_len(s) == utf8_bytes(s, Len(s))

\* String::pop(): removes the last char, nothing when the string is empty.
str_pop(s) ==
    IF s = <<>> THEN s ELSE SubSeq(s, 1, Len(s) - 1)

\* String::push(c)
str_push(s, c) == Append(s, c)

----------------------------------------------------------------------------
(* App                                                                     *)

App_default ==
    [sample |-> <<>>, typed |-> <<>>, start_time |-> None,
     finished |-> FALSE, quit |-> FALSE]

App_new == [App_default EXCEPT !.sample = SampleText]

----------------------------------------------------------------------------
(* Input handling                                                          *)

\* try_finish with the equality test left out: the length test alone.
try_finish_len_only(a) ==
    IF str_len(a.typed) >= str_len(a.sample)
    THEN [a EXCEPT !.finished = TRUE]
    ELSE a

try_finish(a) ==
    IF str_len(a.typed) >= str_len(a.sample) /\ a.typed = a.sample
    THEN [a EXCEPT !.finished = TRUE]
    ELSE a

\* KeyCode::Esc arm
key_esc(a) == [a EXCEPT !.quit = TRUE]

\* Backspace arm that evaluates completion after the pop.
key_backspace_refinish(a) ==
    try_finish([a EXCEPT !.typed = str_pop(a.typed)])

\* Backspace arm that clears finished.
key_backspace_unfinish(a) ==
    [a EXCEPT !.typed = str_pop(a.typed), !.finished = FALSE]

\* Backspace arm that is locked after completion, as the Char arm is.
key_backspace_locked(a) ==
    IF ~a.finished THEN [a EXCEPT !.typed = str_pop(a.typed)] ELSE a

\* KeyCode::Backspace arm
key_backspace(a) == [a EXCEPT !.typed = str_pop(a.typed)]

\* Char arm without the completion lock.
key_char_unlocked(c, a, t) ==
    LET a1 == IF is_none(a.start_time)
              THEN [a EXCEPT !.start_time = Some(t)]
              ELSE a
        a2 == [a1 EXCEPT !.typed = str_push(a1.typed, c)]
    IN  try_finish(a2)

\* Char arm that restarts the timer at every char.
key_char_restart(c, a, t) ==
    IF ~a.finished
    THEN LET a1 == [a EXCEPT !.start_time = Some(t)]
             a2 == [a1 EXCEPT !.typed = str_push(a1.typed, c)]
         IN  try_finish(a2)
    ELSE a

\* Char arm that never starts the timer.
key_char_no_timer(c, a, t) ==
    IF ~a.finished
    THEN try_finish([a EXCEPT !.typed = str_push(a.typed, c)])
    ELSE a

\* Char arm that is locked only while typed still equals sample.
key_char_relock(c, a, t) ==
    IF ~(a.finished /\ a.typed = a.sample)
    THEN LET a1 == IF is_none(a.start_time)
                   THEN [a EXCEPT !.start_time = Some(t)]
                   ELSE a
             a2 == [a1 EXCEPT !.typed = str_push(a1.typed, c)]
         IN  try_finish(a2)
    ELSE a

\* KeyCode::Char(c) arm; t is the value Instant::now() returns
key_char(c, a, t) ==
    IF ~a.finished
    THEN LET a1 == IF is_none(a.start_time)
                   THEN [a EXCEPT !.start_time = Some(t)]
                   ELSE a
             a2 == [a1 EXCEPT !.typed = str_push(a1.typed, c)]
         IN  try_finish(a2)
    ELSE a

\* handle_key in which Enter quits.
handle_key_enter_quits(k, a, t) ==
    CASE k.code = "Esc" -> key_esc(a)
      [] k.code = "Backspace" -> key_backspace(a)
      [] k.code = "Char" -> key_char(k.c, a, t)
      [] k.code = "Enter" -> key_esc(a)
      [] OTHER -> a

\* handle_key in which a char typed with Control (Ctrl+C) quits.
handle_key_ctrl_quits(k, a, t) ==
    CASE k.code = "Esc" -> key_esc(a)
      [] k.code = "Backspace" -> key_backspace(a)
      [] k.code = "Char" /\ k.mods = "CONTROL" -> key_esc(a)
      [] k.code = "Char" /\ k.mods # "CONTROL" -> key_char(k.c, a, t)
      [] OTHER -> a

handle_key(k, a, t) ==
    CASE k.code = "Esc" -> key_esc(a)
      [] k.code = "Backspace" -> key_backspace(a)
      [] k.code = "Char" -> key_char(k.c, a, t)
      [] OTHER -> a

----------------------------------------------------------------------------
(* Metrics                                                                 *)

Min(x, y) == IF x < y THEN x ELSE y

\* accuracy that divides by the length of sample.
accuracy_by_sample_len(a) ==
    IF a.typed = <<>>
    THEN [num |-> 100, den |-> 1]
    ELSE LET correct ==
                 Cardinality({i \in 1..Min(Len(a.typed), Len(a.sample)) :
                                  a.typed[i] = a.sample[i]})
         IN  [num |-> correct * 100, den |-> str_len(a.sample)]

\* The f64 the function returns, as the exact fraction num / den.
accuracy(a) ==
    IF a.typed = <<>>
    THEN [num |-> 100, den |-> 1]
    ELSE LET correct ==
                 Cardinality({i \in 1..Min(Len(a.typed), Len(a.sample)) :
                                  a.typed[i] = a.sample[i]})
         IN  [num |-> correct * 100, den |-> str_len(a.typed)]

\* The unwrap of start_time in the finished branch of ui panics on None.
ui_panics(a) == a.finished /\ is_none(a.start_time)

\* start_time.unwrap().elapsed().as_secs_f64() at clock reading t, in the
\* clock's unit (seconds).
elapsed_secs(a, t) == t - unwrap(a.start_time)

\* Word count without the plus one.
word_count_spaces_only(a) ==
    Cardinality({i \in 1..Len(a.sample) : a.sample[i] = 32})

\* line 102: the number of spaces of sample, plus one
word_count(a) ==
    Cardinality({i \in 1..Len(a.sample) : a.sample[i] = 32}) + 1

\* wpm with the operands of the division swapped: minutes / words.
wpm_swapped(a, t) == [num |-> elapsed_secs(a, t), den |-> word_count(a) * 60]

\* lines 101-103: minutes = secs / 60.0; wpm = words / minutes, as the exact
\* fraction num / den.  den = 0 is the f64 division by 0.0, which yields inf.
wpm(a, t) == [num |-> word_count(a) * 60, den |-> elapsed_secs(a, t)]

\* format!("{:.0}", x) of a non-negative x = num / den: the nearest integer,
\* ties to even; "inf" for an infinite x.
fmt_0(x) ==
    IF x.den = 0
    THEN [inf |-> TRUE, n |-> 0]
    ELSE LET q == x.num \div x.den
             r == x.num % x.den
         IN  [inf |-> FALSE,
              n |-> IF 2 * r < x.den THEN q
                    ELSE IF 2 * r > x.den THEN q + 1
                    ELSE IF q % 2 = 0 THEN q ELSE q + 1]

\* Nothing has been rendered yet.
NoStats == [kind |-> "None"]

\* stats_text that tests start_time before finished.
stats_text_timer_first(a, t) ==
    IF is_some(a.start_time)
    THEN [kind |-> "Typing", secs |-> elapsed_secs(a, t)]
    ELSE IF a.finished
    THEN [kind |-> "Finished",
          wpm |-> wpm(a, t),
          wpm_text |-> fmt_0(wpm(a, t)),
          accuracy |-> accuracy(a)]
    ELSE [kind |-> "Prompt"]

\* lines 100-111: the text of the Stats panel at clock reading t
stats_text(a, t) ==
    IF a.finished
    THEN [kind |-> "Finished",
          wpm |-> wpm(a, t),
          wpm_text |-> fmt_0(wpm(a, t)),
          accuracy |-> accuracy(a)]
    ELSE IF is_some(a.start_time)
    THEN [kind |-> "Typing", secs |-> elapsed_secs(a, t)]
    ELSE [kind |-> "Prompt"]

----------------------------------------------------------------------------
(* Events the terminal delivers                                            *)

\* A KeyEvent: its code (with the char of KeyCode::Char) and its modifiers.
NoKey == [code |-> "None", c |-> 0, mods |-> "NONE"]

KeyEsc == [code |-> "Esc", c |-> 0, mods |-> "NONE"]

KeyBackspace == [code |-> "Backspace", c |-> 0, mods |-> "NONE"]

KeyEnter == [code |-> "Enter", c |-> 0, mods |-> "NONE"]

KeyChar(c) == [code |-> "Char", c |-> c, mods |-> "NONE"]

\* A char typed with the Control key held (Ctrl+C arrives so in raw mode).
KeyCtrlChar(c) == [code |-> "Char", c |-> c, mods |-> "CONTROL"]

\* Number of positions of s, within sample, that do not carry sample's char.
Errors(s, sample) ==
    Cardinality({i \in 1..Min(Len(s), Len(sample)) : s[i] # sample[i]})

\* Number of chars of s past the end of sample.
Overshoot(s, sample) ==
    IF Len(s) > Len(sample) THEN Len(s) - Len(sample) ELSE 0

\* Chars the modelled user types besides the expected one: U+00E9 (two bytes in UTF-8).
ExtraChars == {233}

ExpectedChar(a) ==
    IF Len(a.typed) < Len(a.sample) THEN {a.sample[Len(a.typed) + 1]} ELSE {}

TypedChars(a) ==
    {c \in ExpectedChar(a) \cup ExtraChars :
        \/ a.finished
        \/ /\ Errors(Append(a.typed, c), a.sample) <= MaxErrors
           /\ Overshoot(Append(a.typed, c), a.sample) <= MaxOvershoot}

KeyEvents(a) ==
    {KeyEsc, KeyBackspace, KeyEnter}
    \cup {KeyChar(c) : c \in TypedChars(a)}
    \cup {KeyCtrlChar(c) : c \in TypedChars(a)}

----------------------------------------------------------------------------
(* main                                                                    *)

NoCalls ==
    [raw_on |-> 0, alt_on |-> 0, mouse_on |-> 0,
     raw_off |-> 0, alt_off |-> 0, mouse_off |-> 0, show_cursor |-> 0]

Init ==
    /\ app = App_new
    /\ pc = "enable_raw_mode"
    /\ key = NoKey
    /\ raw_mode = FALSE
    /\ alt_screen = FALSE
    /\ mouse_capture = FALSE
    /\ now = 0
    /\ ret = "none"
    /\ acc = None
    /\ failed = FALSE
    /\ calls = NoCalls
    /\ stats = NoStats

\* A fallible call returns Err and is retried.
Fail_retry ==
    /\ failed' = TRUE
    /\ pc' = pc
    /\ ret' = ret

\* `?` on an Err: main returns the error at once.
Fail ==
    /\ failed' = TRUE
    /\ pc' = "returned"
    /\ ret' = "Err"

\* A fallible call returns Ok and main goes on at `next`.
Proceed(next) ==
    /\ pc' = next
    /\ ret' = ret
    /\ failed' = failed

\* line 39: enable_raw_mode()?
EnableRawMode ==
    /\ pc = "enable_raw_mode"
    /\ \E ok \in BOOLEAN :
          IF ok
          THEN /\ raw_mode' = TRUE
               /\ calls' = [calls EXCEPT !.raw_on = @ + 1]
               /\ Proceed("execute_enter")
          ELSE /\ raw_mode' = raw_mode
               /\ calls' = calls
               /\ Fail
    /\ UNCHANGED <<app, key, alt_screen, mouse_capture, now, acc, stats>>

\* line 41: execute!(stdout, EnterAlternateScreen, EnableMouseCapture)?
\* n is the number of commands that reached the terminal before the error.
ExecuteEnter ==
    /\ pc = "execute_enter"
    /\ \E n \in 0..2, ok \in BOOLEAN :
          /\ ok => n = 2
          /\ alt_screen' = (n >= 1)
          /\ mouse_capture' = (n >= 2)
          /\ calls' = [calls EXCEPT !.alt_on = @ + (IF n >= 1 THEN 1 ELSE 0),
                                    !.mouse_on = @ + (IF n >= 2 THEN 1 ELSE 0)]
          /\ IF ok
             THEN Proceed("terminal_new")
             ELSE Fail
    /\ UNCHANGED <<app, key, raw_mode, now, acc, stats>>

\* lines 42-45: Terminal::new(backend)?; App::new()
TerminalNew ==
    /\ pc = "terminal_new"
    /\ \E ok \in BOOLEAN :
          IF ok
          THEN /\ app' = App_new
               /\ Proceed("draw")
          ELSE /\ app' = app
               /\ Fail
    /\ UNCHANGED <<key, raw_mode, alt_screen, mouse_capture, now, acc, calls,
                   stats>>

\* Loop without the exit test.
after_draw_no_break(a) == "poll"

\* Loop whose break skips the first teardown call.
after_draw_skip_raw(a) == IF a.quit THEN "execute_leave" ELSE "poll"

\* The loop's exit test after a render: break when quit is set.
after_draw(a) == IF a.quit THEN "disable_raw_mode" ELSE "poll"

\* lines 49-53: terminal.draw(|f| ui(f, &app))?; if app.quit { break; }
\* draw can fail before it calls the closure (the terminal is resized
\* first), in which case ui does not run, or after it (the frame is flushed
\* after ui returns).  When ui runs, its finished branch unwraps start_time
\* and calls accuracy (lines 100-105).
Draw ==
    /\ pc = "draw"
    /\ \E r \in {"ok", "err_before", "err_after"} :
          IF r = "err_before"
          THEN /\ acc' = acc
               /\ stats' = stats
               /\ Fail
          ELSE IF ui_panics(app)
          THEN /\ pc' = "returned" /\ ret' = "Panic" /\ acc' = acc
               /\ failed' = failed /\ stats' = stats
          ELSE /\ acc' = IF app.finished THEN Some(accuracy(app)) ELSE acc
               /\ stats' = stats_text(app, now)
               /\ IF r = "ok"
                  THEN Proceed(after_draw(app))
                  ELSE Fail
    /\ UNCHANGED <<app, key, raw_mode, alt_screen, mouse_capture, now, calls>>

\* lines 55-59: where the loop goes on after poll returned Ok(true) (an
\* event is ready) or Ok(false) (the 100 ms timeout elapsed)
after_poll(r) == IF r = "event" THEN "read" ELSE "draw"

\* line 55: event::poll(Duration::from_millis(100))?
Poll ==
    /\ pc = "poll"
    /\ \E r \in {"event", "timeout", "error"} :
          IF r = "error" THEN Fail ELSE Proceed(after_poll(r))
    /\ UNCHANGED <<app, key, raw_mode, alt_screen, mouse_capture, now, acc,
                   calls, stats>>

\* line 56: event::read()? yields a key event, bound to `key`
ReadKey ==
    /\ pc = "read"
    /\ \E k \in KeyEvents(app) :
          /\ key' = k
          /\ pc' = "handle_key"
    /\ UNCHANGED <<app, raw_mode, alt_screen, mouse_capture, now, ret, acc,
                   failed, calls, stats>>

\* line 56: event::read()? yields an event that is no key event
\* (mouse, resize, focus, paste): the if-let does not match
ReadOther ==
    /\ pc = "read"
    /\ pc' = "draw"
    /\ UNCHANGED <<app, key, raw_mode, alt_screen, mouse_capture, now, ret,
                   acc, failed, calls, stats>>

\* line 56: event::read()? fails
ReadFail ==
    /\ pc = "read"
    /\ Fail
    /\ UNCHANGED <<app, key, raw_mode, alt_screen, mouse_capture, now, acc,
                   calls, stats>>

\* Loop that polls again after a key without rendering it.
after_handle_key_no_render == "poll"

\* lines 57-60: after handle_key the loop body ends and the loop starts
\* over at the render
after_handle_key == "draw"

\* line 57: handle_key(key, &mut app)
HandleKey ==
    /\ pc = "handle_key"
    /\ app' = handle_key(key, app, now)
    /\ key' = NoKey
    /\ pc' = after_handle_key
    /\ UNCHANGED <<raw_mode, alt_screen, mouse_capture, now, ret, acc, failed,
                   calls, stats>>

\* line 63: disable_raw_mode()?
DisableRawMode ==
    /\ pc = "disable_raw_mode"
    /\ \E ok \in BOOLEAN :
          IF ok
          THEN /\ raw_mode' = FALSE
               /\ calls' = [calls EXCEPT !.raw_off = @ + 1]
               /\ Proceed("execute_leave")
          ELSE /\ raw_mode' = raw_mode
               /\ calls' = calls
               /\ Fail
    /\ UNCHANGED <<app, key, alt_screen, mouse_capture, now, acc, stats>>

\* lines 64-68: execute!(backend, LeaveAlternateScreen, DisableMouseCapture)?
ExecuteLeave ==
    /\ pc = "execute_leave"
    /\ \E n \in 0..2, ok \in BOOLEAN :
          /\ ok => n = 2
          /\ alt_screen' = (alt_screen /\ n < 1)
          /\ mouse_capture' = (mouse_capture /\ n < 2)
          /\ calls' = [calls EXCEPT !.alt_off = @ + (IF n >= 1 THEN 1 ELSE 0),
                                    !.mouse_off = @ + (IF n >= 2 THEN 1 ELSE 0)]
          /\ IF ok
             THEN Proceed("show_cursor")
             ELSE Fail
    /\ UNCHANGED <<app, key, raw_mode, now, acc, stats>>

\* lines 69-71: terminal.show_cursor()?; Ok(())
ShowCursor ==
    /\ pc = "show_cursor"
    /\ \E ok \in BOOLEAN :
          IF ok
          THEN /\ pc' = "returned" /\ ret' = "Ok" /\ failed' = failed
               /\ calls' = [calls EXCEPT !.show_cursor = @ + 1]
          ELSE /\ calls' = calls
               /\ Fail
    /\ UNCHANGED <<app, key, raw_mode, alt_screen, mouse_capture, now, acc,
                   stats>>

\* The monotonic clock advances while main runs.
Tick ==
    /\ pc # "returned"
    /\ now < MaxClock
    /\ now' = now + 1
    /\ UNCHANGED <<app, pc, key, raw_mode, alt_screen, mouse_capture, ret, acc,
                   failed, calls, stats>>

Next ==
    \/ EnableRawMode
    \/ ExecuteEnter
    \/ TerminalNew
    \/ Draw
    \/ Poll
    \/ ReadKey
    \/ ReadOther
    \/ ReadFail
    \/ HandleKey
    \/ DisableRawMode
    \/ ExecuteLeave
    \/ ShowCursor
    \/ Tick

Spec == Init /\ [][Next]_vars

----------------------------------------------------------------------------
(* The accuracy function on its own: one call of accuracy on a session     *)
(* whose typed text is a prefix of sample followed by a bounded suffix.    *)

\* 'T', 'h', 'x' and U+00E9
AccChars == {84, 104, 120, 233}

AccStrings == UNION {[1..n -> AccChars] : n \in 0..MaxAccLen}

\* Typed texts a session can hold: sample itself (the finished session), or
\* a proper prefix of sample followed by up to MaxAccLen further chars.
AccTyped ==
    {SampleText} \cup
    {ty \in {SubSeq(SampleText, 1, k) \o t :
                 k \in 0..(Len(SampleText) - 1), t \in AccStrings} :
        \/ Len(ty) < Len(SampleText)
        \/ SubSeq(ty, 1, Len(SampleText)) # SampleText}

AccInit ==
    /\ app \in {[App_new EXCEPT !.typed = ty,
                                !.start_time = IF ty = <<>> THEN None ELSE Some(0),
                                !.finished = (ty = SampleText)] :
                   ty \in AccTyped}
    /\ pc = "accuracy"
    /\ key = NoKey
    /\ raw_mode = TRUE
    /\ alt_screen = TRUE
    /\ mouse_capture = TRUE
    /\ now = 0
    /\ ret = "none"
    /\ acc = None
    /\ failed = FALSE
    /\ calls = [NoCalls EXCEPT !.raw_on = 1, !.alt_on = 1, !.mouse_on = 1]
    /\ stats = NoStats

AccCall ==
    /\ pc = "accuracy"
    /\ acc' = Some(accuracy(app))
    /\ pc' = "accuracy_done"
    /\ UNCHANGED <<app, key, raw_mode, alt_screen, mouse_capture, now, ret,
                   failed, calls, stats>>

AccNext == AccCall

SpecAcc == AccInit /\ [][AccNext]_vars

----------------------------------------------------------------------------
(* The renderer on its own: one call of ui on a session whose timer        *)
(* started at clock reading 0, at a clock reading up to MaxElapsed.        *)

\* Sessions a run can hold once the timer has started: typed is a prefix of
\* sample, and the session is finished or not (an unfinished session does
\* not hold the whole of sample).
UiSessions ==
    {[App_new EXCEPT !.typed = SubSeq(SampleText, 1, k),
                     !.start_time = Some(0),
                     !.finished = f] :
        k \in 0..Len(SampleText), f \in BOOLEAN}
    \ {[App_new EXCEPT !.typed = SampleText, !.start_time = Some(0)]}

UiInit ==
    /\ app \in UiSessions
    /\ now \in 0..MaxElapsed
    /\ pc = "ui"
    /\ key = NoKey
    /\ raw_mode = TRUE
    /\ alt_screen = TRUE
    /\ mouse_capture = TRUE
    /\ ret = "none"
    /\ acc = None
    /\ failed = FALSE
    /\ calls = [NoCalls EXCEPT !.raw_on = 1, !.alt_on = 1, !.mouse_on = 1]
    /\ stats = NoStats

UiCall ==
    /\ pc = "ui"
    /\ stats' = stats_text(app, now)
    /\ acc' = IF app.finished THEN Some(accuracy(app)) ELSE acc
    /\ pc' = "ui_done"
    /\ UNCHANGED <<app, key, raw_mode, alt_screen, mouse_capture, now, ret,
                   failed, calls>>

UiNext == UiCall

SpecUi == UiInit /\ [][UiNext]_vars

\* ---------------------------------------------------------------------
\* main, followed from the completion of the sample on: the loop of lines
\* 48-60 and the teardown, with a clock that runs for MaxRenderClock
\* seconds.

\* The state of main right after handle_key handled the keystroke that
\* completed the sample (lines 127-131), one second after the first
\* keystroke: finished is set, typed equals sample, the frame on screen is
\* still the elapsed-time readout rendered before that keystroke, and the
\* loop is about to render.
FinishedInit ==
    /\ app = [App_new EXCEPT !.typed = SampleText,
                             !.start_time = Some(0),
                             !.finished = TRUE]
    /\ pc = "draw"
    /\ key = NoKey
    /\ raw_mode = TRUE
    /\ alt_screen = TRUE
    /\ mouse_capture = TRUE
    /\ now = 1
    /\ ret = "none"
    /\ acc = None
    /\ failed = FALSE
    /\ calls = [NoCalls EXCEPT !.raw_on = 1, !.alt_on = 1, !.mouse_on = 1]
    /\ stats \in {[kind |-> "Typing", secs |-> e] : e \in 0..1}

\* The clock advances by one second, at any point before main returns.
Elapse ==
    /\ pc # "returned"
    /\ now < MaxRenderClock
    /\ now' = now + 1
    /\ UNCHANGED <<app, pc, key, raw_mode, alt_screen, mouse_capture, ret, acc,
                   failed, calls, stats>>

\* line 56: event::read()? yields a key event, Backspace being pressed at
\* most MaxBackspaces times on the completed text.
ReadKeyFinished ==
    /\ ReadKey
    /\ key'.code = "Backspace" =>
           Len(app.typed) + MaxBackspaces > Len(app.sample)

FinishedNext ==
    \/ Draw
    \/ Poll
    \/ ReadKeyFinished
    \/ ReadOther
    \/ ReadFail
    \/ HandleKey
    \/ DisableRawMode
    \/ ExecuteLeave
    \/ ShowCursor
    \/ Elapse

SpecFinished == FinishedInit /\ [][FinishedNext]_vars

----------------------------------------------------------------------------
(* Properties                                                              *)

\* main is about to call handle_key with a key of this code.
AtHandleKey(code) == pc = "handle_key" /\ key.code = code

\* The step is the call of handle_key with a key of this code.
HandlingKey(code) == AtHandleKey(code) /\ pc' = "draw"

\* C1: whenever main has returned, raw mode is disabled, the alternate
\* screen has been left and mouse capture is disabled.
C1_ReleasedOnEveryExit ==
    pc = "returned" => ~raw_mode /\ ~alt_screen /\ ~mouse_capture

\* C2: the Backspace that shrinks an overlong typed (finished false) to
\* exactly sample sets finished.  The Backspace arm never assigns finished,
\* so the formula can hold only where its left-hand side never does.
C2_BackspaceFinishes ==
    [][(/\ HandlingKey("Backspace")
        /\ ~app.finished
        /\ Len(app.typed) > Len(app.sample)
        /\ app'.typed = app.sample) => app'.finished]_vars

\* The case of C2 does not arise: while finished is false, typed is not
\* sample and sample is not a prefix of typed, because the character that
\* makes typed equal to sample sets finished and locks further characters.
C2_CaseUnreachable ==
    ~app.finished =>
        \/ Len(app.typed) < Len(app.sample)
        \/ SubSeq(app.typed, 1, Len(app.sample)) # app.sample

\* typed is strictly longer than sample and finished is false.
C2_Overlong ==
    /\ ~app.finished
    /\ Len(app.typed) > Len(app.sample)

\* C3: a printable character handled while finished is false appends the
\* character and sets finished exactly when the resulting typed equals
\* sample; otherwise finished stays false.
C3_CharFinishesIffEqual ==
    [][(HandlingKey("Char") /\ ~app.finished) =>
          /\ app'.typed = Append(app.typed, key.c)
          /\ app'.finished <=> (Append(app.typed, key.c) = app.sample)]_vars

\* The character that completed sample has been handled.
C3_Witness ==
    /\ app.finished
    /\ app.typed = app.sample
    /\ key = NoKey
    /\ pc = "draw"

\* C4: once finished is true it is true in every later state.
C4_FinishedMonotonic == [][app.finished => app'.finished]_vars

\* finished has survived a Backspace and an Esc.
C4_Witness ==
    /\ app.finished
    /\ app.quit
    /\ app.typed # app.sample

\* C5: a printable character handled while finished is true changes no
\* field of the session.
C5_CompletionLock ==
    [][(HandlingKey("Char") /\ app.finished) => app' = app]_vars

\* After completion and one Backspace, the last character of sample is
\* typed again and is about to be handled.
C5_Witness ==
    /\ AtHandleKey("Char")
    /\ app.finished
    /\ Append(app.typed, key.c) = app.sample

\* C6: start_time is unset until a printable character is handled, the
\* first printable character handled sets it to the current time, and once
\* set it is never changed or cleared.
C6_TimerStart ==
    [][/\ is_some(app.start_time) => app'.start_time = app.start_time
       /\ (is_none(app.start_time) /\ is_some(app'.start_time)) =>
              HandlingKey("Char") /\ app'.start_time = Some(now)
       /\ (HandlingKey("Char") /\ is_none(app.start_time)) =>
              is_some(app'.start_time)]_vars

\* The timer was started, typed was backspaced down to empty and the clock
\* has moved on: start_time still holds the time of the first character.
C6_Witness ==
    /\ is_some(app.start_time)
    /\ app.typed = <<>>
    /\ unwrap(app.start_time) < now

\* C7: Backspace removes exactly the last character of typed, leaves an
\* empty typed empty, and changes no other field, finished or not.
C7_Backspace ==
    [][HandlingKey("Backspace") =>
          /\ app'.typed = IF Len(app.typed) = 0 THEN <<>>
                          ELSE SubSeq(app.typed, 1, Len(app.typed) - 1)
          /\ app'.finished = app.finished
          /\ app'.start_time = app.start_time
          /\ app'.quit = app.quit
          /\ app'.sample = app.sample]_vars

\* A Backspace handled after completion has removed the last character.
C7_Witness ==
    /\ app.finished
    /\ ~app.quit
    /\ app.typed = SubSeq(app.sample, 1, Len(app.sample) - 1)

\* C8: handling Esc changes only quit; once quit is set the loop polls,
\* reads and handles no further event; the render that follows leaves the
\* loop for teardown (or main returns the render's error).
C8_QuitViaEsc ==
    [][/\ HandlingKey("Esc") => app' = [app EXCEPT !.quit = TRUE]
       /\ app.quit =>
              /\ pc' \notin {"poll", "read", "handle_key"}
              /\ key' = key
              /\ app' = app
       /\ (app.quit /\ pc = "draw" /\ pc' # pc) =>
              \/ pc' = "disable_raw_mode"
              \/ pc' = "returned" /\ ret' = "Err"]_vars

\* Esc was handled after finishing and the loop has been left for teardown.
C8_Witness ==
    /\ app.quit
    /\ app.finished
    /\ pc = "disable_raw_mode"

\* C9: finished implies start_time is set, and the renderer's unwrap of
\* start_time never panics.
C9_FinishedImpliesStarted ==
    /\ app.finished => is_some(app.start_time)
    /\ ret # "Panic"

\* A frame of the finished state has been rendered.
C9_Witness ==
    /\ app.finished
    /\ is_some(acc)
    /\ pc = "poll"

\* Number of positions of typed at which sample has the same character.
Matches(typed, sample) ==
    Cardinality({i \in 1..Len(typed) : i <= Len(sample) /\ typed[i] = sample[i]})

\* C10: accuracy is 100 * matches / (number of characters of typed), and
\* exactly 100 when typed is empty.
C10_AccuracyPerCharacter ==
    pc = "accuracy_done" =>
        LET a == unwrap(acc)
        IN  IF app.typed = <<>>
            THEN a.num = 100 * a.den
            ELSE a.num * Len(app.typed) =
                     100 * Matches(app.typed, app.sample) * a.den

\* The positions of main inside the run loop, and in the teardown.
LoopPcs == {"draw", "poll", "read", "handle_key"}

TeardownPcs == {"disable_raw_mode", "execute_leave", "show_cursor"}

\* C11: a failed setup, render, poll, read or teardown call is fatal: it is
\* not retried, main has returned with an error, nothing is rendered, polled
\* or handled afterwards, and main never returns Ok after a failure.
C11_FailureIsFatal ==
    [][/\ failed' => pc' = "returned" /\ ret' = "Err"
       /\ ret' = "Ok" => ~failed'
       /\ failed =>
              /\ pc' = pc
              /\ app' = app
              /\ key' = key
              /\ stats' = stats
              /\ ret' = ret]_vars

\* A call failed in the middle of a session and main returned the error.
C11_Witness ==
    /\ failed
    /\ pc = "returned"
    /\ ret = "Err"
    /\ app.typed # <<>>
    /\ stats.kind = "Typing"

\* C12: every terminal command takes effect at most once; while main is in
\* the loop the three acquisitions have been made once and nothing has been
\* released; a frame is rendered only then; and when main returns Ok, quit
\* is set, no call failed, every restore step has been performed exactly
\* once and the three modes are off.
C12_CleanLifecycle ==
    [][/\ \A c \in DOMAIN calls' : calls'[c] <= 1
       /\ (pc' \in LoopPcs \/ stats' # stats) =>
              /\ calls'.raw_on = 1 /\ calls'.alt_on = 1 /\ calls'.mouse_on = 1
              /\ calls'.raw_off = 0 /\ calls'.alt_off = 0
              /\ calls'.mouse_off = 0 /\ calls'.show_cursor = 0
       /\ pc \in TeardownPcs => stats' = stats /\ pc' \notin LoopPcs
       /\ ret' = "Ok" =>
              /\ app'.quit
              /\ ~failed'
              /\ \A c \in DOMAIN calls' : calls'[c] = 1
              /\ ~raw_mode' /\ ~alt_screen' /\ ~mouse_capture']_vars

\* main has returned Ok after a session that was finished and quit.
C12_Witness ==
    /\ ret = "Ok"
    /\ pc = "returned"
    /\ app.finished
    /\ stats.kind = "Finished"

\* The number of space characters of a text, plus one.
SpacesPlusOne(text) == Cardinality({i \in 1..Len(text) : text[i] = 32}) + 1

\* C13: the WPM of the finished summary is word_count / (elapsed seconds /
\* 60), word_count being the number of spaces of sample plus one: 9 for the
\* default sample, so that at 60 elapsed seconds the WPM is 9 (shown "9").
C13_Wpm ==
    (pc = "ui_done" /\ app.finished) =>
        LET secs == now - unwrap(app.start_time)
        IN  /\ stats.kind = "Finished"
            /\ stats.wpm.num * secs =
                   SpacesPlusOne(app.sample) * 60 * stats.wpm.den
            /\ SpacesPlusOne(app.sample) = 9
            /\ secs = 60 =>
                   /\ stats.wpm.num = 9 * stats.wpm.den
                   /\ stats.wpm_text = [inf |-> FALSE, n |-> 9]

\* The finished summary of the whole sample was rendered 60 seconds after
\* the timer started.
C13_Witness ==
    /\ pc = "ui_done"
    /\ app.finished
    /\ app.typed = app.sample
    /\ now - unwrap(app.start_time) = 60
    /\ stats.kind = "Finished"

\* The message the Stats panel is to show for a session, by priority.
ExpectedKind(a) ==
    IF a.finished THEN "Finished"
    ELSE IF is_some(a.start_time) THEN "Typing"
    ELSE "Prompt"

\* C14: every render that completes puts exactly one of the three messages
\* in the Stats panel: the finished summary if finished, else the elapsed-time readout
\* if start_time is set, else the start prompt; the frame on screen while
\* main polls, reads or handles shows the message of the current session.
C14_StatsPriority ==
    [][/\ (pc = "draw" /\ pc' \in {"poll", "disable_raw_mode"}) =>
              /\ stats'.kind \in {"Finished", "Typing", "Prompt"}
              /\ stats'.kind = ExpectedKind(app)
       /\ pc' \in {"poll", "read", "handle_key"} =>
              stats'.kind = ExpectedKind(app')]_vars

\* The finished summary is on screen although typed was backspaced and no
\* longer equals sample.
C14_Witness ==
    /\ stats.kind = "Finished"
    /\ app.typed # app.sample
    /\ pc = "poll"

\* C15: a key event whose code is not Esc, Backspace or Char, and an event
\* that is no key event, leave every field of the session unchanged.
C15_OtherEventsNoEffect ==
    [][/\ (/\ pc = "handle_key"
           /\ pc' # pc
           /\ key.code \notin {"Esc", "Backspace", "Char"}) => app' = app
       /\ (pc = "read" /\ pc' = "draw") => app' = app]_vars

\* Enter is about to be handled in the middle of typing.
C15_Witness ==
    /\ AtHandleKey("Enter")
    /\ app.typed # <<>>
    /\ ~app.finished
    /\ ~app.quit

\* C16: each iteration renders once, then tests quit, then polls; a poll is
\* entered only from a render of the current session; at most one event is
\* read and handled, and handling is followed by the render; a poll that
\* times out goes back to the render; the session changes only in the
\* handler, and the frame on screen at a poll is that of the session.
C16_LoopOrder ==
    [][/\ (pc = "draw" /\ pc' # pc) =>
              pc' \in {"poll", "disable_raw_mode", "returned"}
       /\ (pc' = "poll" /\ pc # "poll") =>
              /\ pc = "draw"
              /\ ~app.quit
              /\ stats' = stats_text(app', now')
       /\ (pc = "poll" /\ pc' # pc) => pc' \in {"read", "draw", "returned"}
       /\ (pc = "read" /\ pc' # pc) =>
              pc' \in {"handle_key", "draw", "returned"}
       /\ (pc = "handle_key" /\ pc' # pc) => pc' = "draw"
       /\ key' # key =>
              \/ pc = "read" /\ pc' = "handle_key"
              \/ pc = "handle_key" /\ pc' = "draw" /\ key' = NoKey
       /\ app' # app => pc = "handle_key" /\ pc' = "draw"
       /\ pc' = "poll" =>
              \E t \in 0..now' :
                 /\ is_some(app'.start_time) => t >= unwrap(app'.start_time)
                 /\ stats' = stats_text(app', t)]_vars

\* A key changed the session and its render has been made: the frame shows
\* the elapsed time of a session in which one character is typed.
C16_Witness ==
    /\ pc = "poll"
    /\ Len(app.typed) = 1
    /\ stats = stats_text(app, now)
    /\ stats.kind = "Typing"

\* C17: quit is set only by handling Esc and is never cleared; main leaves
\* the loop for the teardown only with quit set, and leaves it otherwise
\* only by returning an error; it returns Ok only with quit set.
C17_OnlyEscQuits ==
    [][/\ app.quit => app'.quit
       /\ (~app.quit /\ app'.quit) => HandlingKey("Esc")
       /\ (pc \in LoopPcs /\ pc' \notin LoopPcs) =>
              \/ app.quit /\ pc = "draw" /\ pc' = "disable_raw_mode"
              \/ pc' = "returned" /\ ret' = "Err"
       /\ pc' \in TeardownPcs => app'.quit
       /\ ret' = "Ok" => app'.quit]_vars

\* The sample is completed, the clock has advanced, and the loop goes on:
\* a character typed with Control is about to be handled, quit is not set.
C17_Witness ==
    /\ AtHandleKey("Char")
    /\ key.mods = "CONTROL"
    /\ app.finished
    /\ ~app.quit
    /\ now > unwrap(app.start_time)


\* typed is an initial segment of sample.
IsPrefixOfSample(a) ==
    /\ Len(a.typed) <= Len(a.sample)
    /\ a.typed = SubSeq(a.sample, 1, Len(a.typed))

\* C18: handling Backspace in a finished session removes the last character
\* of typed and leaves finished true; and from a state with finished true
\* and typed different from sample, no step makes typed longer or equal to
\* sample again.
C18_BackspaceAfterCompletion ==
    [][/\ (HandlingKey("Backspace") /\ app.finished) =>
              /\ app'.finished
              /\ app'.typed = str_pop(app.typed)
              /\ (app.typed # <<>> => app'.typed # app.sample)
       /\ (app.finished /\ app.typed # app.sample) =>
              /\ app'.finished
              /\ app'.typed # app.sample
              /\ Len(app'.typed) <= Len(app.typed)]_vars

\* A finished session from which Backspace removed two characters, with a
\* printable character about to be handled.
C18_Witness ==
    /\ AtHandleKey("Char")
    /\ app.finished
    /\ Len(app.typed) + 2 = Len(app.sample)
    /\ app.typed # app.sample

\* C19: whenever finished is true, typed is an initial segment of sample,
\* and every finished summary that is rendered shows an accuracy of exactly
\* 100 percent.
C19_FinishedAccuracyIs100 ==
    /\ app.finished => IsPrefixOfSample(app)
    /\ stats.kind = "Finished" =>
           stats.accuracy.num = 100 * stats.accuracy.den

\* The finished summary on screen is that of a session in which Backspace
\* was pressed after completion, with part of typed left.
C19_Witness ==
    /\ app.finished
    /\ stats.kind = "Finished"
    /\ stats = stats_text(app, now)
    /\ app.typed # app.sample
    /\ app.typed # <<>>
    /\ pc = "poll"

\* x <= y for two fractions with non-negative numerators and denominators,
\* a zero denominator standing for infinity.
FracLeq(x, y) == y.den = 0 \/ (x.den # 0 /\ x.num * y.den <= y.num * x.den)

\* x <= y for two values printed with no decimals.
ShownLeq(x, y) == y.inf \/ (~x.inf /\ x.n <= y.n)

\* A completed render of a finished session.
FinishedRender == pc = "draw" /\ pc' \in {"poll", "disable_raw_mode"} /\ app.finished

\* C20: every completed render of a finished session computes the words
\* per minute from the time elapsed between start_time and that render, so
\* the figure is not frozen at completion; from one finished summary to the
\* next neither the value nor the number printed ever increases, and when
\* the clock has advanced between the two renders the value is strictly
\* smaller.
C20_WpmRecomputed ==
    [][FinishedRender =>
           /\ stats'.kind = "Finished"
           /\ stats'.wpm = [num |-> SpacesPlusOne(app.sample) * 60,
                            den |-> now - unwrap(app.start_time)]
           /\ stats'.wpm_text = fmt_0(stats'.wpm)
           /\ stats.kind = "Finished" =>
                  /\ FracLeq(stats'.wpm, stats.wpm)
                  /\ ShownLeq(stats'.wpm_text, stats.wpm_text)
                  /\ now - unwrap(app.start_time) > stats.wpm.den =>
                         ~FracLeq(stats.wpm, stats'.wpm)]_vars

\* The summary on screen was rendered 24 seconds after the first keystroke
\* and shows a finite figure, two more seconds have passed, and the next
\* render is about to happen.
C20_Witness ==
    /\ pc = "draw"
    /\ app.finished
    /\ ~app.quit
    /\ stats.kind = "Finished"
    /\ stats.wpm.den = 24
    /\ ~stats.wpm_text.inf
    /\ now - unwrap(app.start_time) = 26

\* C20 as stated: whenever the clock has advanced between two successive
\* finished summaries, the number printed by the later one is strictly
\* smaller than the number printed by the earlier one.
C20_ShownKeepsDecreasing ==
    [][(/\ FinishedRender
        /\ stats.kind = "Finished"
        /\ now - unwrap(app.start_time) > stats.wpm.den) =>
           /\ ShownLeq(stats'.wpm_text, stats.wpm_text)
           /\ stats'.wpm_text # stats.wpm_text]_vars

====
